---- MODULE Spec2Model ----
(***************************************************************************)
(* The Keystone 64-bit timer driver of src/timer.c as a state machine.     *)
(*                                                                         *)
(* Small register values (tcr, tgcr, intctlstat, cntlo, cnthi) are         *)
(* naturals.  Values that need the full width of a uint32_t or uint64_t    *)
(* (the nanosecond argument, the product, the tick count, prdlo, prdhi)    *)
(* are little-endian sequences of 8-bit limbs: a uint64_t is 8 limbs, a    *)
(* uint32_t is 4 limbs, and arithmetic on them is carried out limb by      *)
(* limb, truncated to the width of the C type.                             *)
(***************************************************************************)
EXTENDS Integers, Sequences, FiniteSets, TLC

VARIABLES mem, kts, timers, pc, cur, loc, ret, log, last, snap, intWrites, acked,
          irqDuring

vars ==
    <<mem, kts, timers, pc, cur, loc, ret, log, last, snap, intWrites, acked,
      irqDuring>>

(***************************************************************************)
(* Register bitfields and clock constants                                  *)
(***************************************************************************)
TCR_ENAMODE_MASK == 192

TCR_ENAMODE_ONESHOT_MASK == 64

TCR_ENAMODE_PERIODIC_MASK == 128

TGCR_TIM_UNRESET_MASK == 3

INTCTLSTAT_ENINT_MASK == 1

INTCTLSTAT_ACK_MASK == 3

TICKS_PER_SECOND == 204800000

(***************************************************************************)
(* Bounds of the model                                                     *)
(***************************************************************************)
NTIMERS == 1

MaxCnt == 1

(***************************************************************************)
(* Bitwise operators on naturals                                           *)
(***************************************************************************)
RECURSIVE BitAnd(_, _)
BitAnd(x, y) ==
    IF x = 0 \/ y = 0 THEN 0
    ELSE (x % 2) * (y % 2) + 2 * BitAnd(x \div 2, y \div 2)

BitOr(x, y) == x + y - BitAnd(x, y)

\* x & ~m
BitClear(x, m) == x - BitAnd(x, m)

(***************************************************************************)
(* Fixed-width unsigned arithmetic on limb sequences                       *)
(***************************************************************************)
LimbBase == 256

U32Limbs == 4

U64Limbs == 8

\* the width that holds the product of a 64-bit and a 32-bit value
WideLimbs == U64Limbs + U32Limbs

RECURSIVE ToLimbs(_, _)
ToLimbs(v, n) ==
    IF n = 0 THEN <<>>
    ELSE <<v % LimbBase>> \o ToLimbs(v \div LimbBase, n - 1)

Zeros(n) == [i \in 1..n |-> 0]

\* zero-extension or truncation of x to n limbs (a C integer conversion)
Resize(x, n) == [i \in 1..n |-> IF i <= Len(x) THEN x[i] ELSE 0]

RECURSIVE AddCarry(_, _, _)
AddCarry(x, y, c) ==
    IF x = <<>> THEN <<>>
    ELSE LET s == Head(x) + Head(y) + c
         IN  <<s % LimbBase>> \o AddCarry(Tail(x), Tail(y), s \div LimbBase)

\* x + y modulo LimbBase^Len(x)
AddLimbs(x, y) == AddCarry(x, y, 0)

RECURSIVE MulLimbCarry(_, _, _)
MulLimbCarry(x, d, c) ==
    IF x = <<>> THEN <<>>
    ELSE LET p == Head(x) * d + c
         IN  <<p % LimbBase>> \o MulLimbCarry(Tail(x), d, p \div LimbBase)

\* x * y modulo LimbBase^Len(x): the product in the width of x
RECURSIVE MulLimbs(_, _)
MulLimbs(x, y) ==
    IF y = <<>> THEN Zeros(Len(x))
    ELSE AddLimbs(MulLimbCarry(x, Head(y), 0),
                  Resize(<<0>> \o MulLimbs(x, Tail(y)), Len(x)))

\* long division of x by a small divisor d, from the most significant limb
RECURSIVE DivRem(_, _)
DivRem(x, d) ==
    IF x = <<>> THEN [q |-> <<>>, r |-> 0]
    ELSE LET hi == DivRem(Tail(x), d)
             c  == hi.r * LimbBase + Head(x)
         IN  [q |-> <<c \div d>> \o hi.q, r |-> c % d]

DivLimbs(x, d) == DivRem(x, d).q

\* x < k for a small natural k
LessThanNat(x, k) ==
    /\ \A i \in 2..Len(x) : x[i] = 0
    /\ x[1] < k

\* the low and the high 32 bits of a 64-bit value
Low32(x) == SubSeq(x, 1, U32Limbs)

High32(x) == SubSeq(x, U32Limbs + 1, U64Limbs)

(***************************************************************************)
(* Tick conversion                                                         *)
(***************************************************************************)
\* the cast of the macro: (uint32_t)(...), read back into a uint64_t
CastTicks(q) == Resize(Resize(q, U32Limbs), U64Limbs)

\* TIMER_INTERVAL_TICKS(ns): 1ULL * ns * TICKS_PER_SECOND / 1000 / 1000 / 1000
\* in unsigned 64-bit arithmetic, cast to uint32_t
TIMER_INTERVAL_TICKS(ns) ==
    LET prod == MulLimbs(Resize(ns, U64Limbs), ToLimbs(TICKS_PER_SECOND, U32Limbs))
    IN  CastTicks(DivLimbs(DivLimbs(DivLimbs(prod, 1000), 1000), 1000))

\* floor(ns * TICKS_PER_SECOND / 10^9) without any width limit (96 bits hold
\* the 92-bit product), the reference the conversion is compared with
ExactTicks(ns) ==
    LET prod == MulLimbs(Resize(ns, WideLimbs), ToLimbs(TICKS_PER_SECOND, U32Limbs))
    IN  DivLimbs(DivLimbs(DivLimbs(prod, 1000), 1000), 1000)

(***************************************************************************)
(* Inputs                                                                  *)
(***************************************************************************)
\* 9 ns is 1 tick and 10 ns is 2 ticks; 21 s is 4300800000 ticks, more than
\* 32 bits hold; 20971520000 ns is exactly 2^32 ticks
Ns9 == ToLimbs(9, U64Limbs)

Ns10 == ToLimbs(10, U64Limbs)

Ns21s == MulLimbs(ToLimbs(21, U64Limbs), ToLimbs(1000000000, U32Limbs))

NsWrap == MulLimbs(ToLimbs(2097152, U64Limbs), ToLimbs(10000, U32Limbs))

NsInputs == {Ns9, Ns10, Ns21s, NsWrap}

\* the inputs of the conversion taken alone: 0, d * 10^k nanoseconds, and
\* 2^64 - 1, the largest argument
MaxDigit == 9

MaxExp == 18

RECURSIVE Pow10(_)
Pow10(k) ==
    IF k = 0 THEN ToLimbs(1, U64Limbs)
    ELSE MulLimbs(Pow10(k - 1), ToLimbs(10, U32Limbs))

NsMax == [i \in 1..U64Limbs |-> LimbBase - 1]

ConvInputs ==
    {MulLimbs(ToLimbs(d, U64Limbs), Pow10(k)) : d \in 0..MaxDigit, k \in 0..MaxExp}
        \cup {NsMax, NsWrap}

\* uint64_t ticks = TIMER_INTERVAL_TICKS(ns), for the inputs of the model
\* (the conversions are evaluated once)
TicksTable == [ns \in NsInputs |-> TIMER_INTERVAL_TICKS(ns)]

Ticks(ns) == TicksTable[ns]

ExactTable == [ns \in NsInputs |-> ExactTicks(ns)]

\* the configurations a caller may pass: the mapped register block and one of
\* two interrupt lines
Configs == {[vaddr |-> "A", irq |-> 1], [vaddr |-> "A", irq |-> 2]}

Vaddrs == {c.vaddr : c \in Configs}

TimerIds == 0..(NTIMERS - 1)

\* the ids a caller may pass: the valid ones and two that are out of range
IdInputs == 0..(NTIMERS + 1)

(***************************************************************************)
(* struct keystone_timer_map: the registers the driver accesses            *)
(***************************************************************************)
ZeroRegs ==
    [tcr |-> 0, tgcr |-> 0, cntlo |-> 0, cnthi |-> 0,
     prdlo |-> Zeros(U32Limbs), prdhi |-> Zeros(U32Limbs), intctlstat |-> 0]

\* a block left running by earlier software: periodic mode and a control bit
\* outside the enable-mode field set, counting, armed, interrupt pending
RunningRegs ==
    [tcr |-> 129, tgcr |-> 3, cntlo |-> 1, cnthi |-> 1,
     prdlo |-> ToLimbs(204, U32Limbs), prdhi |-> Zeros(U32Limbs), intctlstat |-> 3]

InitRegs == {ZeroRegs, RunningRegs}

\* the interrupt status bit of intctlstat: the bit of the acknowledge pattern
\* that is not the interrupt enable bit
INTCTLSTAT_STAT_MASK == BitClear(INTCTLSTAT_ACK_MASK, INTCTLSTAT_ENINT_MASK)

EnaMode(tcr) == BitAnd(tcr, TCR_ENAMODE_MASK)

Pending(r) == BitAnd(r.intctlstat, INTCTLSTAT_STAT_MASK) # 0

\* what a store of val to register f leaves in the block: a plain register
\* keeps the value; in intctlstat the enable bit keeps the value written and
\* the status bit is cleared by writing 1 to it and kept by writing 0
HwWrite(r, f, val) ==
    IF f = "intctlstat"
    THEN [r EXCEPT !.intctlstat =
             BitAnd(val, INTCTLSTAT_ENINT_MASK)
             + (IF BitAnd(val, INTCTLSTAT_STAT_MASK) # 0
                THEN 0 ELSE BitAnd(r.intctlstat, INTCTLSTAT_STAT_MASK))]
    ELSE [r EXCEPT ![f] = val]

\* kt->hw-><f> = val
StoreReg(m, v, f, val) == [m EXCEPT ![v] = HwWrite(m[v], f, val)]

W(f, val) == [reg |-> f, val |-> val]

Dmb == [reg |-> "dmb", val |-> 0]

(***************************************************************************)
(* Software state                                                          *)
(***************************************************************************)
\* an element of the static array timers[] before ps_get_timer fills it
ZeroTimer ==
    [properties |-> [upcounter |-> FALSE, timeouts |-> FALSE,
                     relative_timeouts |-> FALSE, periodic_timeouts |-> FALSE,
                     absolute_timeouts |-> FALSE, bit_width |-> 0, irqs |-> 0],
     data |-> "NULL", start |-> "NULL", stop |-> "NULL", get_time |-> "NULL",
     oneshot_absolute |-> "NULL", oneshot_relative |-> "NULL",
     periodic |-> "NULL", handle_irq |-> "NULL", get_nth_irq |-> "NULL"]

\* the slot with upcounter set
FilledTimerUp ==
    [properties |-> [upcounter |-> TRUE, timeouts |-> TRUE,
                     relative_timeouts |-> TRUE, periodic_timeouts |-> TRUE,
                     absolute_timeouts |-> FALSE, bit_width |-> 32, irqs |-> 1],
     data |-> "kts", start |-> "keystone_timer_start",
     stop |-> "keystone_timer_stop", get_time |-> "keystone_get_time",
     oneshot_absolute |-> "stub_timer_timeout",
     oneshot_relative |-> "keystone_oneshot_relative",
     periodic |-> "keystone_periodic", handle_irq |-> "keystone_handle_irq",
     get_nth_irq |-> "keystone_get_nth_irq"]

\* the slot with keystone_oneshot_relative installed as oneshot_absolute
FilledTimerAbsRelative ==
    [properties |-> [upcounter |-> FALSE, timeouts |-> TRUE,
                     relative_timeouts |-> TRUE, periodic_timeouts |-> TRUE,
                     absolute_timeouts |-> FALSE, bit_width |-> 32, irqs |-> 1],
     data |-> "kts", start |-> "keystone_timer_start",
     stop |-> "keystone_timer_stop", get_time |-> "keystone_get_time",
     oneshot_absolute |-> "keystone_oneshot_relative",
     oneshot_relative |-> "keystone_oneshot_relative",
     periodic |-> "keystone_periodic", handle_irq |-> "keystone_handle_irq",
     get_nth_irq |-> "keystone_get_nth_irq"]

\* what ps_get_timer stores in timers[id]
FilledTimer ==
    [properties |-> [upcounter |-> FALSE, timeouts |-> TRUE,
                     relative_timeouts |-> TRUE, periodic_timeouts |-> TRUE,
                     absolute_timeouts |-> FALSE, bit_width |-> 32, irqs |-> 1],
     data |-> "kts", start |-> "keystone_timer_start",
     stop |-> "keystone_timer_stop", get_time |-> "keystone_get_time",
     oneshot_absolute |-> "stub_timer_timeout",
     oneshot_relative |-> "keystone_oneshot_relative",
     periodic |-> "keystone_periodic", handle_irq |-> "keystone_handle_irq",
     get_nth_irq |-> "keystone_get_nth_irq"]

ZeroKt == [hw |-> "NULL", irq |-> 0]

NoLoc ==
    [ns |-> Zeros(U64Limbs), ticks |-> Zeros(U64Limbs), tcr |-> 0, off |-> 0,
     flags |-> 0]

NoSnap == [id |-> 0, v |-> "NULL", regs |-> ZeroRegs, n |-> 0]

Ret(code, val) == [code |-> code, val |-> val]

\* no call has ended yet
NoCall ==
    [op |-> "none", id |-> 0, n |-> 0, armed |-> "none", step |-> "none"]

Init ==
    /\ mem \in [Vaddrs -> InitRegs]
    /\ kts = [i \in TimerIds |-> ZeroKt]
    /\ timers = [i \in TimerIds |-> ZeroTimer]
    /\ pc = "idle"
    /\ cur = 0
    /\ loc = NoLoc
    /\ ret = Ret("none", 0)
    /\ log = <<>>
    /\ last = NoCall
    /\ snap = NoSnap
    /\ intWrites = {}
    /\ acked = [v \in Vaddrs |-> FALSE]
    /\ irqDuring = FALSE

\* the register block of the timer the running call works on
Hw == kts[cur].hw

\* how far the calls on one timer have come in the sequence "set_timeout
\* returns 0, stop, start": the mode that was set (armed) and the call of
\* the sequence that ended last (step)
Sequel(op, id, r) ==
    IF op \in {"periodic", "oneshot_relative"} /\ r = Ret("int", 0)
    THEN [armed |-> op, step |-> "set"]
    ELSE IF op = "stop" /\ last.id = id /\ last.step = "set"
    THEN [armed |-> last.armed, step |-> "stopped"]
    ELSE IF op = "start" /\ last.id = id /\ last.step = "stopped"
    THEN [armed |-> last.armed, step |-> "started"]
    ELSE [armed |-> "none", step |-> "none"]

\* the record of the call that ended last: the operation, the timer,
\* whether the call before it was the same one (n = 2) or not (n = 1), and
\* its place in the sequence set_timeout, stop, start
Ended(op, id, r) ==
    [op |-> op, id |-> id,
     n |-> IF last.op = op /\ last.id = id THEN 2 ELSE 1,
     armed |-> Sequel(op, id, r).armed,
     step |-> Sequel(op, id, r).step]

\* a call in caller context ends: its return value, and the record of it
Return(op, r) ==
    /\ pc' = "idle"
    /\ ret' = r
    /\ last' = Ended(op, cur, r)
    /\ loc' = NoLoc

\* a call that returns at once, without a register store
ReturnAtOnce(op, id, r) ==
    /\ pc' = "idle"
    /\ cur' = id
    /\ ret' = r
    /\ last' = Ended(op, id, r)
    /\ log' = <<>>
    /\ loc' = NoLoc
    /\ snap' = NoSnap
    /\ irqDuring' = FALSE

(***************************************************************************)
(* ps_get_timer and keystone_timer_reset                                   *)
(***************************************************************************)
BadIdOffByOne(id) == id > NTIMERS

\* the test "id >= NTIMERS"
BadId(id) == id >= NTIMERS

\* id >= NTIMERS: return NULL
GetTimerBadId(id) ==
    /\ pc = "idle"
    /\ BadId(id)
    /\ ReturnAtOnce("get_timer", id, Ret("NULL", 0))
    /\ UNCHANGED <<mem, kts, timers, intWrites, acked>>

\* ps_get_timer returning a slot that is already filled without a reset
GetTimerOnce(id, config) ==
    /\ pc = "idle"
    /\ ~BadId(id)
    /\ IF timers[id].data = "NULL"
       THEN /\ timers' = [timers EXCEPT ![id] = FilledTimer]
            /\ kts' = [kts EXCEPT ![id] = [hw |-> config.vaddr, irq |-> config.irq]]
            /\ pc' = "reset_tcr"
            /\ cur' = id
            /\ loc' = NoLoc
            /\ log' = <<>>
            /\ snap' = NoSnap
            /\ irqDuring' = FALSE
            /\ UNCHANGED <<ret, last>>
       ELSE /\ ReturnAtOnce("get_timer", id, Ret("timer", id))
            /\ UNCHANGED <<kts, timers>>
    /\ UNCHANGED <<mem, intWrites, acked>>

\* fill timers[id] and kts[id] from config, then enter keystone_timer_reset
GetTimer(id, config) ==
    /\ pc = "idle"
    /\ ~BadId(id)
    /\ timers' = [timers EXCEPT ![id] = FilledTimer]
    /\ kts' = [kts EXCEPT ![id] = [hw |-> config.vaddr, irq |-> config.irq]]
    /\ pc' = "reset_tcr"
    /\ cur' = id
    /\ loc' = NoLoc
    /\ log' = <<>>
    /\ snap' = IF snap.id = id /\ snap.v = config.vaddr THEN snap ELSE NoSnap
    /\ irqDuring' = FALSE
    /\ UNCHANGED <<mem, ret, last, intWrites, acked>>

ps_get_timer(id, config) ==
    \/ GetTimerBadId(id)
    \/ GetTimer(id, config)

\* kt->hw->tcr = 0; dmb()
ResetTcr ==
    /\ pc = "reset_tcr"
    /\ mem' = StoreReg(mem, Hw, "tcr", 0)
    /\ log' = log \o <<W("tcr", 0), Dmb>>
    /\ pc' = "reset_tgcr"
    /\ UNCHANGED <<kts, timers, cur, loc, ret, last, snap, intWrites, acked,
                   irqDuring>>

\* kt->hw->tgcr = 0
ResetTgcr ==
    /\ pc = "reset_tgcr"
    /\ mem' = StoreReg(mem, Hw, "tgcr", 0)
    /\ log' = Append(log, W("tgcr", 0))
    /\ pc' = "reset_unreset"
    /\ UNCHANGED <<kts, timers, cur, loc, ret, last, snap, intWrites, acked,
                   irqDuring>>

\* kt->hw->tgcr = TGCR_TIM_UNRESET_MASK
ResetUnreset ==
    /\ pc = "reset_unreset"
    /\ mem' = StoreReg(mem, Hw, "tgcr", TGCR_TIM_UNRESET_MASK)
    /\ log' = Append(log, W("tgcr", TGCR_TIM_UNRESET_MASK))
    /\ pc' = "reset_cntlo"
    /\ UNCHANGED <<kts, timers, cur, loc, ret, last, snap, intWrites, acked,
                   irqDuring>>

\* kt->hw->cntlo = 0
ResetCntlo ==
    /\ pc = "reset_cntlo"
    /\ mem' = StoreReg(mem, Hw, "cntlo", 0)
    /\ log' = Append(log, W("cntlo", 0))
    /\ pc' = "reset_cnthi"
    /\ UNCHANGED <<kts, timers, cur, loc, ret, last, snap, intWrites, acked,
                   irqDuring>>

\* kt->hw->cnthi = 0
ResetCnthi ==
    /\ pc = "reset_cnthi"
    /\ mem' = StoreReg(mem, Hw, "cnthi", 0)
    /\ log' = Append(log, W("cnthi", 0))
    /\ pc' = "reset_intctl"
    /\ UNCHANGED <<kts, timers, cur, loc, ret, last, snap, intWrites, acked,
                   irqDuring>>

ResetIntctlAck == INTCTLSTAT_ACK_MASK

\* the value keystone_timer_reset stores to intctlstat
ResetIntctlValue == INTCTLSTAT_ENINT_MASK

\* kt->hw->intctlstat = INTCTLSTAT_ENINT_MASK; ps_get_timer returns timer
ResetIntctl ==
    /\ pc = "reset_intctl"
    /\ mem' = StoreReg(mem, Hw, "intctlstat", ResetIntctlValue)
    /\ log' = Append(log, W("intctlstat", ResetIntctlValue))
    /\ intWrites' = intWrites \cup {ResetIntctlValue}
    /\ Return("get_timer", Ret("timer", cur))
    /\ snap' = IF snap.v = "NULL"
               THEN [id |-> cur, v |-> Hw, regs |-> mem'[Hw], n |-> 1]
               ELSE [snap EXCEPT !.n = 2]
    /\ UNCHANGED <<kts, timers, cur, acked, irqDuring>>

(***************************************************************************)
(* keystone_timer_stop and keystone_timer_start                            *)
(***************************************************************************)
\* the load of kt->hw->tcr in "kt->hw->tcr &= ~(TCR_ENAMODE_MASK)"
StopRead(id) ==
    /\ pc = "idle"
    /\ timers[id].stop = "keystone_timer_stop"
    /\ cur' = id
    /\ loc' = [NoLoc EXCEPT !.tcr = mem[kts[id].hw].tcr]
    /\ log' = <<>>
    /\ snap' = NoSnap
    /\ pc' = "stop_write"
    /\ irqDuring' = FALSE
    /\ UNCHANGED <<mem, kts, timers, ret, last, intWrites, acked>>

\* tcr ^= TCR_ENAMODE_MASK in place of tcr &= ~(TCR_ENAMODE_MASK)
StopValueToggle(tcr) ==
    IF EnaMode(tcr) = 0 THEN BitOr(tcr, TCR_ENAMODE_MASK)
    ELSE BitClear(tcr, TCR_ENAMODE_MASK)

\* the value keystone_timer_stop stores back
StopValue(tcr) == BitClear(tcr, TCR_ENAMODE_MASK)

\* the store of it; return 0
StopWrite ==
    /\ pc = "stop_write"
    /\ mem' = StoreReg(mem, Hw, "tcr", StopValue(loc.tcr))
    /\ log' = Append(log, W("tcr", StopValue(loc.tcr)))
    /\ Return("stop", Ret("int", 0))
    /\ UNCHANGED <<kts, timers, cur, snap, intWrites, acked, irqDuring>>

\* the load of kt->hw->tcr in "kt->hw->tcr |= TCR_ENAMODE_MASK"
StartRead(id) ==
    /\ pc = "idle"
    /\ timers[id].start = "keystone_timer_start"
    /\ cur' = id
    /\ loc' = [NoLoc EXCEPT !.tcr = mem[kts[id].hw].tcr]
    /\ log' = <<>>
    /\ snap' = NoSnap
    /\ pc' = "start_write"
    /\ irqDuring' = FALSE
    /\ UNCHANGED <<mem, kts, timers, ret, last, intWrites, acked>>

\* a start that sets the one-shot bit only
StartValueOneshot(tcr) == BitOr(tcr, TCR_ENAMODE_ONESHOT_MASK)

\* the value keystone_timer_start stores back
StartValue(tcr) == BitOr(tcr, TCR_ENAMODE_MASK)

\* the store of it; return 0
StartWrite ==
    /\ pc = "start_write"
    /\ mem' = StoreReg(mem, Hw, "tcr", StartValue(loc.tcr))
    /\ log' = Append(log, W("tcr", StartValue(loc.tcr)))
    /\ Return("start", Ret("int", 0))
    /\ UNCHANGED <<kts, timers, cur, snap, intWrites, acked, irqDuring>>

(***************************************************************************)
(* keystone_set_timeo, keystone_periodic, keystone_oneshot_relative        *)
(***************************************************************************)
ModeName(tcrFlags) ==
    IF tcrFlags = TCR_ENAMODE_PERIODIC_MASK THEN "periodic" ELSE "oneshot_relative"

TimeoOffKeep(tcr) == tcr

\* off = tcr & ~(TCR_ENAMODE_MASK)
TimeoOff(tcr) == BitClear(tcr, TCR_ENAMODE_MASK)

\* tcr |= tcrFlags
TimeoTarget(tcr, tcrFlags) == BitOr(tcr, tcrFlags)

TicksTooSmallOffByOne(ticks) == LessThanNat(ticks, 1)

\* the test "ticks < 2"
TicksTooSmall(ticks) == LessThanNat(ticks, 2)

\* ticks < 2: return EINVAL
SetTimeoInvalid(id, ns, tcrFlags) ==
    /\ pc = "idle"
    /\ TicksTooSmall(Ticks(ns))
    /\ ReturnAtOnce(ModeName(tcrFlags), id, Ret("EINVAL", 0))
    /\ UNCHANGED <<mem, kts, timers, intWrites, acked>>

\* the conversion, the check passed, the load of kt->hw->tcr and the two
\* values computed from it
SetTimeoBegin(id, ns, tcrFlags) ==
    /\ pc = "idle"
    /\ ~TicksTooSmall(Ticks(ns))
    /\ cur' = id
    /\ loc' = [ns |-> ns, ticks |-> Ticks(ns),
               tcr |-> TimeoTarget(mem[kts[id].hw].tcr, tcrFlags),
               off |-> TimeoOff(mem[kts[id].hw].tcr), flags |-> tcrFlags]
    /\ log' = <<>>
    /\ snap' = NoSnap
    /\ pc' = "timeo_off"
    /\ irqDuring' = FALSE
    /\ UNCHANGED <<mem, kts, timers, ret, last, intWrites, acked>>

keystone_set_timeo(id, ns, tcrFlags) ==
    \/ SetTimeoInvalid(id, ns, tcrFlags)
    \/ SetTimeoBegin(id, ns, tcrFlags)

Periodic(id, ns) ==
    /\ timers[id].periodic = "keystone_periodic"
    /\ keystone_set_timeo(id, ns, TCR_ENAMODE_PERIODIC_MASK)

OneshotRelative(id, ns) ==
    /\ timers[id].oneshot_relative = "keystone_oneshot_relative"
    /\ keystone_set_timeo(id, ns, TCR_ENAMODE_ONESHOT_MASK)

\* kt->hw->tcr = off; dmb()
TimeoDisable ==
    /\ pc = "timeo_off"
    /\ mem' = StoreReg(mem, Hw, "tcr", loc.off)
    /\ log' = log \o <<W("tcr", loc.off), Dmb>>
    /\ pc' = "timeo_cntlo"
    /\ UNCHANGED <<kts, timers, cur, loc, ret, last, snap, intWrites, acked,
                   irqDuring>>

\* kt->hw->cntlo = 0
TimeoCntlo ==
    /\ pc = "timeo_cntlo"
    /\ mem' = StoreReg(mem, Hw, "cntlo", 0)
    /\ log' = Append(log, W("cntlo", 0))
    /\ pc' = "timeo_cnthi"
    /\ UNCHANGED <<kts, timers, cur, loc, ret, last, snap, intWrites, acked,
                   irqDuring>>

\* kt->hw->cnthi = 0
TimeoCnthi ==
    /\ pc = "timeo_cnthi"
    /\ mem' = StoreReg(mem, Hw, "cnthi", 0)
    /\ log' = Append(log, W("cnthi", 0))
    /\ pc' = "timeo_prdlo"
    /\ UNCHANGED <<kts, timers, cur, loc, ret, last, snap, intWrites, acked,
                   irqDuring>>

\* ticks & 0xffffffff and ticks >> 32, as the uint32_t stored
PrdloValue(ticks) == Low32(ticks)

PrdhiValue(ticks) == High32(ticks)

\* kt->hw->prdlo = (ticks & 0xffffffff)
TimeoPrdlo ==
    /\ pc = "timeo_prdlo"
    /\ mem' = StoreReg(mem, Hw, "prdlo", PrdloValue(loc.ticks))
    /\ log' = Append(log, W("prdlo", PrdloValue(loc.ticks)))
    /\ pc' = "timeo_prdhi"
    /\ UNCHANGED <<kts, timers, cur, loc, ret, last, snap, intWrites, acked,
                   irqDuring>>

\* kt->hw->prdhi = (ticks >> 32)
TimeoPrdhi ==
    /\ pc = "timeo_prdhi"
    /\ mem' = StoreReg(mem, Hw, "prdhi", PrdhiValue(loc.ticks))
    /\ log' = Append(log, W("prdhi", PrdhiValue(loc.ticks)))
    /\ pc' = "timeo_ack"
    /\ UNCHANGED <<kts, timers, cur, loc, ret, last, snap, intWrites, acked,
                   irqDuring>>

\* kt->hw->intctlstat = INTCTLSTAT_ACK_MASK; dmb()
TimeoAck ==
    /\ pc = "timeo_ack"
    /\ mem' = StoreReg(mem, Hw, "intctlstat", INTCTLSTAT_ACK_MASK)
    /\ log' = log \o <<W("intctlstat", INTCTLSTAT_ACK_MASK), Dmb>>
    /\ intWrites' = intWrites \cup {INTCTLSTAT_ACK_MASK}
    /\ pc' = "timeo_enable"
    /\ UNCHANGED <<kts, timers, cur, loc, ret, last, snap, acked, irqDuring>>

\* kt->hw->tcr = tcr; return 0
TimeoEnable ==
    /\ pc = "timeo_enable"
    /\ mem' = StoreReg(mem, Hw, "tcr", loc.tcr)
    /\ log' = Append(log, W("tcr", loc.tcr))
    /\ Return(ModeName(loc.flags), Ret("int", 0))
    /\ UNCHANGED <<kts, timers, cur, snap, intWrites, acked, irqDuring>>

(***************************************************************************)
(* keystone_get_time, keystone_get_nth_irq, the oneshot_absolute stub      *)
(***************************************************************************)
\* return kt->hw->cntlo
GetTime(id) ==
    /\ pc = "idle"
    /\ timers[id].get_time = "keystone_get_time"
    /\ ReturnAtOnce("get_time", id, Ret("time", mem[kts[id].hw].cntlo))
    /\ UNCHANGED <<mem, kts, timers, intWrites, acked>>

\* return kt->irq
GetNthIrq(id, n) ==
    /\ pc = "idle"
    /\ timers[id].get_nth_irq = "keystone_get_nth_irq"
    /\ ReturnAtOnce("get_nth_irq", id, Ret("irq", kts[id].irq))
    /\ UNCHANGED <<mem, kts, timers, intWrites, acked>>

\* stub_timer_timeout of stubtimer.h: fails, touches no register
StubTimerTimeout(id, ns) ==
    /\ pc = "idle"
    /\ ReturnAtOnce("oneshot_absolute", id, Ret("Unsupported", 0))
    /\ UNCHANGED <<mem, kts, timers, intWrites, acked>>

\* the call through timers[id].oneshot_absolute: the function the table
\* names is the one that runs
OneshotAbsolute(id, ns) ==
    IF timers[id].oneshot_absolute = "stub_timer_timeout"
    THEN StubTimerTimeout(id, ns)
    ELSE /\ timers[id].oneshot_absolute = "keystone_oneshot_relative"
         /\ keystone_set_timeo(id, ns, TCR_ENAMODE_ONESHOT_MASK)

(***************************************************************************)
(* keystone_handle_irq, in interrupt context: it may run between any two   *)
(* steps of a call in caller context                                       *)
(***************************************************************************)
HandleIrqEnableOnly == INTCTLSTAT_ENINT_MASK

HandleIrqStatOnly == INTCTLSTAT_STAT_MASK

\* the value keystone_handle_irq stores to intctlstat
HandleIrqValue == INTCTLSTAT_ACK_MASK

HandleIrqRegTcr == "tcr"

\* the register keystone_handle_irq stores to
HandleIrqReg == "intctlstat"

\* kt->hw->intctlstat = INTCTLSTAT_ACK_MASK
HandleIrq(id, irq) ==
    /\ timers[id].handle_irq = "keystone_handle_irq"
    /\ mem' = StoreReg(mem, kts[id].hw, HandleIrqReg, HandleIrqValue)
    /\ intWrites' = intWrites \cup {HandleIrqValue}
    /\ acked' = [acked EXCEPT ![kts[id].hw] = Pending(mem[kts[id].hw])]
    /\ snap' = NoSnap
    /\ irqDuring' = \/ irqDuring
                     \/ (pc \notin {"idle", "reset_tcr"} /\ kts[id].hw = Hw)
    /\ UNCHANGED <<kts, timers, pc, cur, loc, ret, log, last>>

(***************************************************************************)
(* The device: while the enable-mode field is not zero the counter counts  *)
(* and a period may elapse, which sets the interrupt status bit            *)
(***************************************************************************)
HwCount(v) ==
    /\ EnaMode(mem[v].tcr) # 0
    /\ mem[v].cntlo < MaxCnt
    /\ mem' = [mem EXCEPT ![v].cntlo = @ + 1]
    /\ snap' = NoSnap
    /\ UNCHANGED <<kts, timers, pc, cur, loc, ret, log, last, intWrites, acked,
                   irqDuring>>

HwExpire(v) ==
    /\ EnaMode(mem[v].tcr) # 0
    /\ ~Pending(mem[v])
    /\ mem' = [mem EXCEPT ![v].intctlstat = BitOr(@, INTCTLSTAT_STAT_MASK)]
    /\ acked' = [acked EXCEPT ![v] = FALSE]
    /\ snap' = NoSnap
    /\ UNCHANGED <<kts, timers, pc, cur, loc, ret, log, last, intWrites,
                   irqDuring>>

Next ==
    \/ \E id \in IdInputs, config \in Configs : ps_get_timer(id, config)
    \/ ResetTcr \/ ResetTgcr \/ ResetUnreset
    \/ ResetCntlo \/ ResetCnthi \/ ResetIntctl
    \/ \E id \in TimerIds : StopRead(id)
    \/ StopWrite
    \/ \E id \in TimerIds : StartRead(id)
    \/ StartWrite
    \/ \E id \in TimerIds, ns \in NsInputs : Periodic(id, ns)
    \/ \E id \in TimerIds, ns \in NsInputs : OneshotRelative(id, ns)
    \/ TimeoDisable \/ TimeoCntlo \/ TimeoCnthi
    \/ TimeoPrdlo \/ TimeoPrdhi \/ TimeoAck \/ TimeoEnable
    \/ \E id \in TimerIds : GetTime(id)
    \/ \E id \in TimerIds : GetNthIrq(id, 0)
    \/ \E id \in TimerIds, ns \in NsInputs : OneshotAbsolute(id, ns)
    \/ \E id \in TimerIds : HandleIrq(id, kts[id].irq)
    \/ \E v \in Vaddrs : HwCount(v)
    \/ \E v \in Vaddrs : HwExpire(v)

Spec == Init /\ [][Next]_vars

(***************************************************************************)
(* The conversion taken alone: line 116 applied to each input              *)
(***************************************************************************)
InitConv ==
    /\ mem = [v \in Vaddrs |-> ZeroRegs]
    /\ kts = [i \in TimerIds |-> ZeroKt]
    /\ timers = [i \in TimerIds |-> ZeroTimer]
    /\ pc = "convert"
    /\ cur = 0
    /\ loc \in {[NoLoc EXCEPT !.ns = ns] : ns \in ConvInputs}
    /\ ret = Ret("none", 0)
    /\ log = <<>>
    /\ last = NoCall
    /\ snap = NoSnap
    /\ intWrites = {}
    /\ acked = [v \in Vaddrs |-> FALSE]
    /\ irqDuring = FALSE

\* uint64_t ticks = TIMER_INTERVAL_TICKS(ns)
Convert ==
    /\ pc = "convert"
    /\ loc' = [loc EXCEPT !.ticks = TIMER_INTERVAL_TICKS(loc.ns)]
    /\ pc' = "converted"
    /\ UNCHANGED <<mem, kts, timers, cur, ret, log, last, snap, intWrites, acked,
                   irqDuring>>

SpecConv == InitConv /\ [][Convert]_vars

(***************************************************************************)
(* Properties                                                              *)
(***************************************************************************)
SetTimeoOps == {"periodic", "oneshot_relative"}

TimeoPcs ==
    {"timeo_off", "timeo_cntlo", "timeo_cnthi", "timeo_prdlo", "timeo_prdhi",
     "timeo_ack", "timeo_enable"}

ResetPcs ==
    {"reset_tcr", "reset_tgcr", "reset_unreset", "reset_cntlo", "reset_cnthi",
     "reset_intctl"}

\* keystone_set_timeo has returned 0 and no other call was made since
TimeoDone == pc = "idle" /\ last.op \in SetTimeoOps /\ ret = Ret("int", 0)

\* ps_get_timer has returned an instance and no other call was made since
GetTimerDone == pc = "idle" /\ last.op = "get_timer" /\ ret.code = "timer"

ReprogramRegs == {"cntlo", "cnthi", "prdlo", "prdhi"}

IsAck(e) ==
    /\ e.reg = "intctlstat"
    /\ BitAnd(e.val, INTCTLSTAT_STAT_MASK) # 0

\* entry j of the log is preceded by a store of a disabled value to tcr and
\* a barrier after that store
DisabledBefore(j) ==
    \E i \in 1..(j - 1), k \in 1..(j - 1) :
        /\ i < k
        /\ log[i].reg = "tcr"
        /\ EnaMode(log[i].val) = 0
        /\ log[k] = Dmb

\* entry j of the log is preceded by the stores to both period registers,
\* by the acknowledge store, and by a barrier after the acknowledge store
ProgrammedBefore(j) ==
    /\ \E i \in 1..(j - 1) : log[i].reg = "prdlo"
    /\ \E i \in 1..(j - 1) : log[i].reg = "prdhi"
    /\ \E a \in 1..(j - 1), k \in 1..(j - 1) :
           /\ a < k
           /\ IsAck(log[a])
           /\ log[k] = Dmb
    /\ \A i \in DOMAIN log :
           log[i].reg \in ReprogramRegs \/ IsAck(log[i]) => i < j

\* C1: in every successful set_timeout the first store writes tcr with the
\* enable-mode bits clear; every store to a counter or period register comes
\* after that store and a barrier; the only later store to tcr, the enabling
\* one, is the last store of the call and comes after both period stores,
\* the acknowledge store and a barrier that follows the acknowledge store
C1_WriteOrder ==
    (pc \in TimeoPcs \/ TimeoDone) =>
        /\ \A j \in DOMAIN log :
               log[j].reg \in ReprogramRegs => DisabledBefore(j)
        /\ \A j \in DOMAIN log :
               log[j].reg = "tcr" =>
                   \/ j = 1 /\ EnaMode(log[j].val) = 0
                   \/ j = Len(log) /\ TimeoDone /\ ProgrammedBefore(j)
        /\ TimeoDone =>
               /\ Len(log) > 1
               /\ log[Len(log)].reg = "tcr"
               /\ \A r \in ReprogramRegs : \E j \in DOMAIN log : log[j].reg = r

\* a set_timeout on a running timer has returned 0
C1_Witness ==
    /\ TimeoDone
    /\ last.n = 2
    /\ EnaMode(mem[kts[last.id].hw].tcr) # 0

\* the duration converts to fewer than 2 ticks
TooShort(ns) ==
    ExactTable[ns] \in {ToLimbs(0, WideLimbs), ToLimbs(1, WideLimbs)}

\* C2: a periodic or oneshot_relative call whose duration is below 2 ticks
\* returns EINVAL at once and leaves every register as it was
C2_ShortRejected ==
    [][\A id \in TimerIds, ns \in NsInputs :
          ((Periodic(id, ns) \/ OneshotRelative(id, ns)) /\ TooShort(ns)) =>
              /\ ret' = Ret("EINVAL", 0)
              /\ pc' = "idle"
              /\ log' = <<>>
              /\ mem' = mem]_vars

\* a call was rejected while the timer was armed and running
C2_Witness ==
    /\ pc = "idle"
    /\ ret = Ret("EINVAL", 0)
    /\ last.op \in SetTimeoOps
    /\ EnaMode(mem[kts[last.id].hw].tcr) # 0
    /\ mem[kts[last.id].hw].prdlo # Zeros(U32Limbs)

\* C3: the tick count set_timeout works with is floor(ns * 204800000 / 10^9)
\* computed without overflow or truncation
C3_TicksExact ==
    pc = "converted" => Resize(loc.ticks, WideLimbs) = ExactTicks(loc.ns)

ModeFlags(op) ==
    IF op = "periodic" THEN TCR_ENAMODE_PERIODIC_MASK ELSE TCR_ENAMODE_ONESHOT_MASK

\* C4: after a successful set_timeout in mode M the control register holds
\* the value it had before with the enable-mode bits cleared, OR M's bits
C4_FinalMode ==
    TimeoDone =>
        /\ log[Len(log)] = W("tcr", BitOr(log[1].val, ModeFlags(last.op)))
        /\ mem[kts[last.id].hw].tcr = BitOr(log[1].val, ModeFlags(last.op))
        /\ EnaMode(mem[kts[last.id].hw].tcr) = ModeFlags(last.op)

\* C5: once set_timeout has stored the period, both counter registers have
\* been written to 0 and the period registers hold the low and the high 32
\* bits of the converted duration
C5_PeriodSplit ==
    pc \in {"timeo_ack", "timeo_enable"} =>
        /\ \E j \in DOMAIN log : log[j] = W("cntlo", 0)
        /\ \E j \in DOMAIN log : log[j] = W("cnthi", 0)
        /\ mem[Hw].prdlo = SubSeq(ExactTable[loc.ns], 1, U32Limbs)
        /\ mem[Hw].prdhi = SubSeq(ExactTable[loc.ns], U32Limbs + 1, U64Limbs)

\* C6: the store of a stop that follows a stop of the same timer, and the
\* store of a start that follows a start, leave the enable-mode bits of the
\* control register as they were after the first call
C6_StartStopIdempotent ==
    [][/\ (pc = "stop_write" /\ last.op = "stop" /\ last.id = cur) =>
              EnaMode(mem'[Hw].tcr) = EnaMode(mem[Hw].tcr)
       /\ (pc = "start_write" /\ last.op = "start" /\ last.id = cur) =>
              EnaMode(mem'[Hw].tcr) = EnaMode(mem[Hw].tcr)]_vars

\* stop has been called twice in a row on a timer that was armed before
C6_Witness ==
    /\ pc = "idle"
    /\ last.op = "stop"
    /\ last.n = 2
    /\ mem[kts[last.id].hw].prdlo # Zeros(U32Limbs)

\* C7: once handle_irq has run with the interrupt pending, the interrupt
\* status bit of the interrupt-control/status register reads back clear
\* until the device sets it again
C7_AckClearsPending ==
    \A v \in Vaddrs : acked[v] => ~Pending(mem[v])

\* handle_irq has acknowledged a pending interrupt of a running timer
C7_Witness ==
    \E v \in Vaddrs :
        /\ acked[v]
        /\ TimeoDone
        /\ EnaMode(mem[v].tcr) # 0
        /\ BitAnd(mem[v].intctlstat, INTCTLSTAT_ENINT_MASK) # 0

\* C8: get_timer with id >= NTIMERS returns NULL at once, stores to no
\* register and changes no slot of timers[] and kts[]
C8_BadIdRejected ==
    [][\A id \in IdInputs, config \in Configs :
          (ps_get_timer(id, config) /\ id >= NTIMERS) =>
              /\ ret' = Ret("NULL", 0)
              /\ pc' = "idle"
              /\ log' = <<>>
              /\ mem' = mem
              /\ kts' = kts
              /\ timers' = timers]_vars

\* an out-of-range id was rejected after a timer had been fetched and armed
C8_Witness ==
    /\ pc = "idle"
    /\ ret = Ret("NULL", 0)
    /\ last.op = "get_timer"
    /\ \E id \in TimerIds :
           /\ timers[id] = FilledTimer
           /\ EnaMode(mem[kts[id].hw].tcr) # 0

\* C9: every successful get_timer returns the instance of its id and has
\* run reset; and when the same id is fetched again with nothing in
\* between, the registers after the second reset equal the registers after
\* the first
C9_ResetIdempotent ==
    /\ GetTimerDone =>
           /\ ret = Ret("timer", last.id)
           /\ timers[last.id].data = "kts"
           /\ \E j \in DOMAIN log : log[j] = W("tcr", 0)
    /\ (pc = "idle" /\ snap.v # "NULL") =>
           /\ GetTimerDone
           /\ last.id = snap.id
           /\ mem[snap.v] = snap.regs

\* the same id was fetched twice in a row, the first time while the timer
\* was armed with an interrupt pending
C9_Witness ==
    /\ pc = "idle"
    /\ snap.n = 2
    /\ Pending(mem[snap.v])
    /\ mem[snap.v].prdlo # Zeros(U32Limbs)

ResetSequence ==
    <<W("tcr", 0), Dmb, W("tgcr", 0), W("tgcr", TGCR_TIM_UNRESET_MASK),
      W("cntlo", 0), W("cnthi", 0), W("intctlstat", INTCTLSTAT_ENINT_MASK)>>

\* C10: the stores of reset are, in this order: tcr = 0, barrier, tgcr = 0,
\* tgcr = 0x03, cntlo = 0, cnthi = 0, intctlstat = interrupt enable; and
\* every successful get_timer returns with the enable-mode bits clear, the
\* counter zero and the interrupt enable bit set
C10_ResetOrder ==
    /\ pc \in ResetPcs =>
           /\ Len(log) < Len(ResetSequence)
           /\ log = SubSeq(ResetSequence, 1, Len(log))
    /\ GetTimerDone =>
           /\ log = ResetSequence
           /\ EnaMode(mem[kts[last.id].hw].tcr) = 0
           /\ mem[kts[last.id].hw].cntlo = 0
           /\ mem[kts[last.id].hw].cnthi = 0
           /\ BitAnd(mem[kts[last.id].hw].intctlstat, INTCTLSTAT_ENINT_MASK) # 0

\* get_timer has returned for a block that was running, counting and armed
C10_Witness ==
    /\ GetTimerDone
    /\ last.n = 1
    /\ mem[kts[last.id].hw].prdlo # Zeros(U32Limbs)
    /\ Pending(mem[kts[last.id].hw])

\* C11: the store of stop changes nothing but the enable-mode bits of the
\* control register, which it clears, and the store of start nothing but
\* the enable-mode bits, which it sets; the loads change nothing
C11_StartStopFrame ==
    [][/\ (pc = "stop_write" /\ pc' = "idle") =>
              mem' = [mem EXCEPT ![Hw].tcr = BitClear(@, TCR_ENAMODE_MASK)]
       /\ (pc = "start_write" /\ pc' = "idle") =>
              mem' = [mem EXCEPT ![Hw].tcr = BitOr(@, TCR_ENAMODE_MASK)]
       /\ (pc = "idle" /\ pc' \in {"stop_write", "start_write"}) =>
              mem' = mem]_vars

\* stop has returned for a timer that is armed, has counted and has an
\* interrupt pending
C11_Witness ==
    /\ pc = "idle"
    /\ last.op = "stop"
    /\ ret = Ret("int", 0)
    /\ mem[kts[last.id].hw].prdlo # Zeros(U32Limbs)
    /\ mem[kts[last.id].hw].cntlo # 0
    /\ Pending(mem[kts[last.id].hw])

\* C12: the interrupt status bit, once set, is cleared by no step other
\* than keystone_handle_irq and the acknowledge store of set_timeout
C12_PendingStays ==
    [][\A v \in Vaddrs :
          (Pending(mem[v]) /\ ~Pending(mem'[v])) =>
              \/ pc = "timeo_ack" /\ pc' = "timeo_enable"
              \/ \E id \in TimerIds : HandleIrq(id, kts[id].irq)]_vars

\* the interrupt is still pending after two stops in a row and was never
\* acknowledged by handle_irq
C12_Witness ==
    /\ pc = "idle"
    /\ last.op = "stop"
    /\ last.n = 2
    /\ Pending(mem[kts[last.id].hw])
    /\ ~acked[kts[last.id].hw]
    /\ mem[kts[last.id].hw].prdlo # Zeros(U32Limbs)

\* C13: every filled slot of timers[] reports upcounter = false, timeouts,
\* relative_timeouts and periodic_timeouts = true, absolute_timeouts =
\* false, bit_width = 32 and irqs = 1, in every state
C13_Properties ==
    \A id \in TimerIds :
        timers[id].data # "NULL" =>
            timers[id].properties =
                [upcounter |-> FALSE, timeouts |-> TRUE,
                 relative_timeouts |-> TRUE, periodic_timeouts |-> TRUE,
                 absolute_timeouts |-> FALSE, bit_width |-> 32, irqs |-> 1]

\* the highest timer id was fetched twice in a row
C13_Witness ==
    /\ GetTimerDone
    /\ last.n = 2
    /\ last.id = NTIMERS - 1
    /\ timers[last.id].data # "NULL"

\* C14: a call of the oneshot_absolute entry returns Unsupported at once and
\* stores to no register: control, counter, period and interrupt
\* control/status are as they were
C14_AbsoluteUnsupported ==
    [][\A id \in TimerIds, ns \in NsInputs :
          OneshotAbsolute(id, ns) =>
              /\ ret' = Ret("Unsupported", 0)
              /\ pc' = "idle"
              /\ log' = <<>>
              /\ intWrites' = intWrites
              /\ mem' = mem]_vars

\* oneshot_absolute has failed on a timer that is armed and running
C14_Witness ==
    /\ pc = "idle"
    /\ last.op = "oneshot_absolute"
    /\ ret = Ret("Unsupported", 0)
    /\ EnaMode(mem[kts[last.id].hw].tcr) # 0
    /\ mem[kts[last.id].hw].prdlo # Zeros(U32Limbs)

\* C15: a periodic or oneshot_relative call returns EINVAL if and only if
\* the exact tick count of its duration is below 2, and starts to program
\* the timer otherwise
C15_OnlyShortRejected ==
    [][\A id \in TimerIds, ns \in NsInputs :
          (Periodic(id, ns) \/ OneshotRelative(id, ns)) =>
              /\ (pc' = "idle" /\ ret' = Ret("EINVAL", 0)) <=> TooShort(ns)
              /\ ~TooShort(ns) => pc' = "timeo_off"]_vars

\* C16: when start has returned after a successful set_timeout in mode M
\* and a stop, the enable-mode bits of the control register are M's bits
C16_StartResumesMode ==
    (pc = "idle" /\ last.op = "start" /\ last.step = "started") =>
        EnaMode(mem[kts[last.id].hw].tcr) = ModeFlags(last.armed)

\* C17: from the store that disables the counter until the final enabling
\* store of set_timeout the counter is disabled, and when the enabling store
\* is issued no interrupt status is pending
C17_NoStalePending ==
    /\ pc \in (TimeoPcs \ {"timeo_off"}) => EnaMode(mem[Hw].tcr) = 0
    /\ pc = "timeo_enable" =>
           /\ ~Pending(mem[Hw])
           /\ \E a \in DOMAIN log : IsAck(log[a]) /\ DisabledBefore(a)

\* a timer that was armed before is being armed again, its counter is
\* disabled, the new period is stored and the status of the old period is
\* still pending: the acknowledge store is next
C17_Witness ==
    /\ pc = "timeo_ack"
    /\ last.op \in SetTimeoOps
    /\ last.id = cur
    /\ Pending(mem[Hw])
    /\ ~acked[Hw]
    /\ EnaMode(mem[Hw].tcr) = 0

\* C18: once ps_get_timer has filled kts[id], no step changes its register
\* map reference or its interrupt line number
C18_WriteOnce ==
    [][\A id \in TimerIds :
          kts[id].hw # "NULL" => kts'[id] = kts[id]]_vars

\* the registers the claim is about, and the value the running call stored
\* last to one of them
OutcomeRegs == {"tcr", "tgcr", "cntlo", "cnthi", "prdlo", "prdhi"}

Stored(r) == \E j \in DOMAIN log : log[j].reg = r

LastStored(r) ==
    log[CHOOSE j \in DOMAIN log :
            /\ log[j].reg = r
            /\ \A k \in DOMAIN log : log[k].reg = r => k <= j].val

\* C19: a step of keystone_handle_irq changes none of tcr, tgcr, cntlo,
\* cnthi, prdlo, prdhi and nothing of the caller's context (its position,
\* the values it has read, the stores it has issued), and each of these
\* registers holds what the call in caller context stored to it last (cntlo
\* while the counter does not count), as without the interleaving
C19_IrqKeepsOutcome ==
    /\ [](\A r \in OutcomeRegs :
            (Stored(r) /\ (r = "cntlo" => EnaMode(mem[Hw].tcr) = 0)) =>
                mem[Hw][r] = LastStored(r))
    /\ [][(\E id \in TimerIds : HandleIrq(id, kts[id].irq)) =>
              /\ \A v \in Vaddrs, r \in OutcomeRegs : mem'[v][r] = mem[v][r]
              /\ <<pc, cur, loc, log, ret, last>>' = <<pc, cur, loc, log, ret, last>>]_vars

\* set_timeout has returned 0 with keystone_handle_irq run between two of
\* its register accesses, and the timer counts toward the new period
C19_Witness ==
    /\ TimeoDone
    /\ irqDuring
    /\ EnaMode(mem[kts[last.id].hw].tcr) = ModeFlags(last.op)
    /\ mem[kts[last.id].hw].prdlo = PrdloValue(Ticks(Ns10))

\* C20: every value the driver has stored to intctlstat has the
\* interrupt-enable bit set, and the register of a timer that ps_get_timer
\* has returned has it set
C20_IrqStaysEnabled ==
    /\ \A x \in intWrites : BitAnd(x, INTCTLSTAT_ENINT_MASK) # 0
    /\ \A id \in TimerIds :
           (timers[id].data # "NULL" /\ ~(pc \in ResetPcs /\ cur = id)) =>
               BitAnd(mem[kts[id].hw].intctlstat, INTCTLSTAT_ENINT_MASK) # 0

\* reset has stored the enable value, set_timeout and handle_irq the
\* acknowledge value, and the timer is armed
C20_Witness ==
    /\ TimeoDone
    /\ intWrites = {INTCTLSTAT_ENINT_MASK, INTCTLSTAT_ACK_MASK}
    /\ acked[kts[last.id].hw]

====
